---- MODULE Spec2Model ----
(***************************************************************************)
(* Model of tiled-replace (src/src/main.rs): a batch tool that reads a     *)
(* Tiled TMX map, applies one of Replace / Resize / Convert and prints     *)
(* the result as TMX XML or as JSON.                                       *)
(*                                                                         *)
(* u32 values are kept at their full width.  TLC's integers stop at        *)
(* 2^31-1, so a u32 is held as two 16-bit limbs [h, l] standing for        *)
(* h * 65536 + l, and the arithmetic of the program is carried out on the  *)
(* limbs, with the overflow of every operation made explicit.              *)
(***************************************************************************)
EXTENDS Integers, Sequences, FiniteSets, TLC

(***************************************************************************)
(* u32 arithmetic                                                          *)
(***************************************************************************)
Limb == 65536

U32 == [h : 0..(Limb - 1), l : 0..(Limb - 1)]

\* the u32 with value n, for 0 <= n < 2^31
Lit(n) == [h |-> n \div Limb, l |-> n % Limb]

\* u32::MAX = 2^32 - 1
U32_MAX == [h |-> Limb - 1, l |-> Limb - 1]

Zero == Lit(0)
One == Lit(1)

Lt(a, b) == a.h < b.h \/ (a.h = b.h /\ a.l < b.l)
Ge(a, b) == ~Lt(a, b)

\* a + b modulo 2^32, and whether the exact sum leaves the u32 range
WrappingAdd(a, b) ==
    LET s == a.l + b.l
    IN  [h |-> (a.h + b.h + (s \div Limb)) % Limb, l |-> s % Limb]
AddOverflows(a, b) == a.h + b.h + ((a.l + b.l) \div Limb) >= Limb

\* a - b modulo 2^32, and whether the exact difference is negative
WrappingSub(a, b) ==
    LET borrow == IF a.l < b.l THEN 1 ELSE 0
    IN  [h |-> (a.h - b.h - borrow + Limb) % Limb,
         l |-> (a.l - b.l + Limb) % Limb]
SubOverflows(a, b) == Lt(a, b)

\* a * b modulo 2^32 (val) and whether the exact product leaves the range:
\* schoolbook multiplication on the four bytes of each operand
Bytes(a) == <<a.l % 256, a.l \div 256, a.h % 256, a.h \div 256>>
WrappingMul(a, b) ==
    LET x == Bytes(a)
        y == Bytes(b)
        Term(i, k) == IF k + 2 - i \in 1..4 THEN x[i] * y[k + 2 - i] ELSE 0
        Col(k) == Term(1, k) + Term(2, k) + Term(3, k) + Term(4, k)
        t0 == Col(0)
        t1 == Col(1) + (t0 \div 256)
        t2 == Col(2) + (t1 \div 256)
        t3 == Col(3) + (t2 \div 256)
        t4 == Col(4) + (t3 \div 256)
    IN  [val |-> [h |-> (t3 % 256) * 256 + (t2 % 256),
                  l |-> (t1 % 256) * 256 + (t0 % 256)],
         ovf |-> t4 # 0 \/ Col(5) # 0 \/ Col(6) # 0]

\* numbers below 2^31 as integers of the model
Small(a) == a.h < Limb \div 2
ToInt(a) == a.h * Limb + a.l
Half(a) == [h |-> a.h \div 2, l |-> (a.h % 2) * (Limb \div 2) + (a.l \div 2)]

\* quotient and remainder of a by b, b # 0.  A divisor of 2^31 or more goes
\* into a at most once; for a smaller one, a is divided as 2 * Half(a) + bit.
DivMod(a, b) ==
    IF ~Small(b)
    THEN IF Ge(a, b) THEN [q |-> One, r |-> WrappingSub(a, b)]
         ELSE [q |-> Zero, r |-> a]
    ELSE LET d == ToInt(b)
             qh == ToInt(Half(a)) \div d
             rh == ToInt(Half(a)) % d
             bit == a.l % 2
             extra == IF rh >= d - rh - bit THEN 1 ELSE 0
         IN  [q |-> WrappingAdd(WrappingAdd(Lit(qh), Lit(qh)), Lit(extra)),
              r |-> IF extra = 1 THEN Lit(rh - (d - rh - bit))
                    ELSE Lit(2 * rh + bit)]

(***************************************************************************)
(* Text: a string of the program is a sequence of one-character strings.   *)
(***************************************************************************)
Digits == <<"0", "1", "2", "3", "4", "5", "6", "7", "8", "9">>
IsDigit(c) == \E i \in 1..10 : Digits[i] = c
DigitVal(c) == (CHOOSE i \in 1..10 : Digits[i] = c) - 1

Comma == ","
Newline == "\n"

\* decimal rendering of a u32 (the csv writer's integer formatting)
RECURSIVE FormatU32(_)
FormatU32(v) ==
    IF Lt(v, Lit(10)) THEN <<Digits[v.l + 1]>>
    ELSE LET dm == DivMod(v, Lit(10))
         IN  FormatU32(dm.q) \o <<Digits[dm.r.l + 1]>>

\* str::parse::<u32>: an optional '+', then one or more decimal digits whose
\* value fits in 32 bits
RECURSIVE ParseDigits(_, _)
ParseDigits(s, acc) ==
    IF s = <<>> THEN [ok |-> TRUE, val |-> acc]
    ELSE IF ~IsDigit(Head(s)) THEN [ok |-> FALSE, val |-> Zero]
    ELSE LET m == WrappingMul(acc, Lit(10))
             d == Lit(DigitVal(Head(s)))
         IN  IF m.ovf \/ AddOverflows(m.val, d)
             THEN [ok |-> FALSE, val |-> Zero]
             ELSE ParseDigits(Tail(s), WrappingAdd(m.val, d))

ParseU32(s) ==
    LET body == IF s # <<>> /\ Head(s) = "+" /\ Len(s) > 1 THEN Tail(s) ELSE s
    IN  IF s = <<>> THEN [ok |-> FALSE, val |-> Zero]
        ELSE ParseDigits(body, Zero)

\* str::split(pat): the pieces between the non-overlapping matches of pat
RECURSIVE Split(_, _)
Split(s, pat) ==
    LET n == Len(pat)
        hits == {i \in 1..(Len(s) - n + 1) : SubSeq(s, i, i + n - 1) = pat}
    IN  IF hits = {} THEN <<s>>
        ELSE LET i == CHOOSE k \in hits : \A j \in hits : k <= j
             IN  <<SubSeq(s, 1, i - 1)>> \o Split(SubSeq(s, i + n, Len(s)), pat)

RECURSIVE Join(_, _)
Join(parts, sep) ==
    IF parts = <<>> THEN <<>>
    ELSE IF Len(parts) = 1 THEN parts[1]
    ELSE parts[1] \o sep \o Join(Tail(parts), sep)

RECURSIVE Concat(_)
Concat(parts) == IF parts = <<>> THEN <<>> ELSE Head(parts) \o Concat(Tail(parts))

(***************************************************************************)
(* Option<T>: None is the empty sequence, Some(v) the one-element one.     *)
(***************************************************************************)
None == <<>>
Some(v) == <<v>>
IsSome(o) == o # <<>>
Unwrap(o) == o[1]

(***************************************************************************)
(* GridCodec                                                               *)
(***************************************************************************)
\* a writer that leaves the terminator out
WriteRecord_no_terminator(record) ==
    Join([i \in 1..Len(record) |-> FormatU32(record[i])], <<Comma>>)

\* csv::Writer::serialize(record) with delimiter ',' and Terminator::Any(','):
\* the fields in decimal, a comma between them and the terminator after them
WriteRecord(record) ==
    Join([i \in 1..Len(record) |-> FormatU32(record[i])], <<Comma>>) \o <<Comma>>

\* a loop that keeps the trailing comma of the last row
RECURSIVE DataStrFrom_keep_comma(_, _)
DataStrFrom_keep_comma(grid, i) ==
    IF i > Len(grid) THEN <<>>
    ELSE LET len == Len(grid)
             v == WriteRecord(grid[i])
             s == IF i # len THEN v \o <<Newline>> ELSE v
         IN  s \o DataStrFrom_keep_comma(grid, i + 1)

\* the loop of XmlFormat::serialize_data building data_str
RECURSIVE DataStrFrom(_, _)
DataStrFrom(grid, i) ==
    IF i > Len(grid) THEN <<>>
    ELSE LET len == Len(grid)
             v == WriteRecord(grid[i])
             popped == IF i = len THEN SubSeq(v, 1, Len(v) - 1) ELSE v
             s == IF i # len THEN popped \o <<Newline>> ELSE popped
         IN  s \o DataStrFrom(grid, i + 1)

\* the two entries XmlFormat::serialize_data emits for a Data
XmlFormat_serialize_data(data) ==
    << <<"@encoding", data.encoding>>, <<"$text", DataStrFrom(data.data, 1)>> >>

\* JsonFormat::serialize_data: one element per cell, rows one after another
RECURSIVE JsonFormat_serialize_data(_)
JsonFormat_serialize_data(data) ==
    IF data.data = <<>> THEN <<>>
    ELSE data.data[1] \o JsonFormat_serialize_data([data EXCEPT !.data = Tail(@)])

\* csv::Reader over one chunk (no headers, default terminator): one record
\* per non-empty line, its fields the pieces between commas
ReaderLines(chunk) ==
    LET lines == Split(chunk, <<Newline>>)
    IN  SelectSeq(lines, LAMBDA ln : ln # <<>>)
ReaderRecords(chunk) ==
    LET lines == ReaderLines(chunk)
    IN  [i \in 1..Len(lines) |-> Split(lines[i], <<Comma>>)]
\* the reader is not flexible: a record whose length differs from the first
\* record's is an error, and the code unwraps it
ReaderFails(chunk) ==
    LET recs == ReaderRecords(chunk)
    IN  \E i \in 1..Len(recs) : Len(recs[i]) # Len(recs[1])

\* deserialize_csv: ok is FALSE where one of the unwraps panics
deserialize_csv(text) ==
    LET chunks == Split(text, <<Comma, Newline>>)
        recs == Concat([i \in 1..Len(chunks) |-> ReaderRecords(chunks[i])])
        bad == \/ \E i \in 1..Len(chunks) : ReaderFails(chunks[i])
               \/ \E i \in 1..Len(recs) : \E j \in 1..Len(recs[i]) :
                      ~ParseU32(recs[i][j]).ok
    IN  IF bad THEN [ok |-> FALSE, grid |-> <<>>]
        ELSE [ok |-> TRUE,
              grid |-> [i \in 1..Len(recs) |->
                          [j \in 1..Len(recs[i]) |-> ParseU32(recs[i][j]).val]]]

(***************************************************************************)
(* FormatAdapter: the two implementations of SerializationFormat.  A       *)
(* serialized struct or map is the sequence of its <<key, value>> entries  *)
(* in the order the code emits them.                                       *)
(***************************************************************************)
Formats == {"XmlFormat", "JsonFormat"}

transform_name(T, name) ==
    IF T = "XmlFormat" THEN name
    ELSE IF SubSeq(name, 1, 1) = "@" THEN SubSeq(name, 2, Len(name)) ELSE name

\* a collection name that is left in the plural
transform_vec_name_plural(T, name) == name

transform_vec_name(T, name) ==
    IF T = "XmlFormat" THEN SubSeq(name, 1, Len(name) - 1) ELSE name

\* the entries come out of a serde_json Map, which iterates in key order
transform_image(T, image) ==
    IF T = "XmlFormat"
    THEN << <<"image", << <<transform_name(T, "@height"), image.height>>,
                          <<transform_name(T, "@source"), image.source>>,
                          <<transform_name(T, "@width"), image.width>> >> >> >>
    ELSE << <<"image", image.source>>,
            <<"imageheight", image.height>>,
            <<"imagewidth", image.width>> >>

\* a discriminator that both formats write
layer_type_both(T, layer) ==
    Some(CASE layer.variant = "Layer" -> "tilelayer"
           [] layer.variant = "ImageLayer" -> "imagelayer"
           [] layer.variant = "Group" -> "group"
           [] layer.variant = "ObjectGroup" -> "objectgroup")

layer_type(T, layer) ==
    IF T = "XmlFormat" THEN None
    ELSE Some(CASE layer.variant = "Layer" -> "tilelayer"
                [] layer.variant = "ImageLayer" -> "imagelayer"
                [] layer.variant = "Group" -> "group"
                [] layer.variant = "ObjectGroup" -> "objectgroup")

serialize_data(T, data) ==
    IF T = "XmlFormat" THEN XmlFormat_serialize_data(data)
    ELSE JsonFormat_serialize_data(data)

\* an optional field that is written only when it is Some
OptField(key, o) == IF IsSome(o) THEN << <<key, Unwrap(o)>> >> ELSE <<>>

\* impl Serialize for LayerType<T>
LayerType_serialize(T, x) ==
    LET layer == x.layer
    IN  OptField(transform_name(T, "@type"), layer_type(T, x))
        \o OptField(transform_name(T, "@id"), layer.id)
        \o << <<transform_name(T, "@name"), layer.name>> >>
        \o OptField(transform_name(T, "@width"), layer.width)
        \o OptField(transform_name(T, "@height"), layer.height)
        \o OptField(transform_name(T, "@offsetx"), layer.offsetx)
        \o OptField(transform_name(T, "@offsety"), layer.offsety)
        \o (IF IsSome(layer.data)
            THEN << <<"data", serialize_data(T, Unwrap(layer.data))>> >>
            ELSE <<>>)

\* the collection key each variant is filed under by XmlFormat::transform_layers
XmlLayerKey(x) ==
    CASE x.variant = "ObjectGroup" -> "objectgroups"
      [] x.variant = "Layer" -> "layers"
      [] x.variant = "ImageLayer" -> "imagelayers"
      [] x.variant = "Group" -> "groups"

\* the fields transform_layers adds to the serialized map
transform_layers(T, layers) ==
    IF T = "XmlFormat"
    THEN [i \in 1..Len(layers) |->
            <<transform_vec_name(T, XmlLayerKey(layers[i])),
              LayerType_serialize(T, layers[i])>>]
    ELSE << <<transform_vec_name(T, "layers"),
              [i \in 1..Len(layers) |-> LayerType_serialize(T, layers[i])]>> >>

\* impl Serialize for TileSet<T>
TileSet_serialize(T, ts) ==
    << <<transform_name(T, "@firstgid"), ts.firstgid>>,
       <<transform_name(T, "@name"), ts.name>>,
       <<transform_name(T, "@tilewidth"), ts.tilewidth>>,
       <<transform_name(T, "@tileheight"), ts.tileheight>>,
       <<transform_name(T, "@tilecount"), ts.tilecount>>,
       <<transform_name(T, "@columns"), ts.columns>> >>
    \o transform_image(T, ts.image)

\* impl Serialize for Export<T>, reached through EditorSettings<T>
Export_serialize(T, export) ==
    << <<transform_name(T, "@target"), export.target>>,
       <<transform_name(T, "@format"), export.format>> >>
EditorSettings_serialize(T, es) ==
    << <<"export", Export_serialize(T, es.export)>> >>

\* impl Serialize for Map<T>
Map_serialize(T, m) ==
    << <<transform_name(T, "@version"), m.version>>,
       <<transform_name(T, "@tiledversion"), m.tiledversion>>,
       <<transform_name(T, "@orientation"), m.orientation>>,
       <<transform_name(T, "@renderorder"), m.renderorder>>,
       <<transform_name(T, "@width"), m.width>>,
       <<transform_name(T, "@height"), m.height>>,
       <<transform_name(T, "@tilewidth"), m.tilewidth>>,
       <<transform_name(T, "@tileheight"), m.tileheight>>,
       <<transform_name(T, "@infinite"), m.infinite>>,
       <<transform_name(T, "@backgroundcolor"), m.backgroundcolor>>,
       <<transform_name(T, "@nextlayerid"), m.nextlayerid>>,
       <<transform_name(T, "@nextobjectid"), m.nextobjectid>>,
       <<"editorsettings",
         IF IsSome(m.editorsettings)
         THEN Some(EditorSettings_serialize(T, Unwrap(m.editorsettings)))
         ELSE None>>,
       <<transform_vec_name(T, "tilesets"),
         [i \in 1..Len(m.tilesets) |-> TileSet_serialize(T, m.tilesets[i])]>> >>
    \o transform_layers(T, m.layers)

(***************************************************************************)
(* The conversions From<X<XmlFormat>> for X<JsonFormat>                    *)
(***************************************************************************)
Image_from(image) ==
    [source |-> image.source, width |-> image.width, height |-> image.height]

Export_from(export) == [target |-> export.target, format |-> export.format]

EditorSettings_from(es) == [export |-> Export_from(es.export)]

\* a conversion that mixes up two fields of the same type
TileSet_from_swapped(ts) ==
    [firstgid |-> ts.firstgid, name |-> ts.name,
     tilewidth |-> ts.tileheight, tileheight |-> ts.tilewidth,
     tilecount |-> ts.tilecount, columns |-> ts.columns,
     image |-> Image_from(ts.image)]

TileSet_from(ts) ==
    [firstgid |-> ts.firstgid, name |-> ts.name,
     tilewidth |-> ts.tilewidth, tileheight |-> ts.tileheight,
     tilecount |-> ts.tilecount, columns |-> ts.columns,
     image |-> Image_from(ts.image)]

DataField_from(data) == data

Data_from(data) == [encoding |-> data.encoding, data |-> DataField_from(data.data)]

Layer_from(layer) ==
    [id |-> layer.id, name |-> layer.name, width |-> layer.width,
     height |-> layer.height, offsetx |-> layer.offsetx,
     offsety |-> layer.offsety,
     data |-> IF IsSome(layer.data) THEN Some(Data_from(Unwrap(layer.data)))
              ELSE None]

LayerType_from(x) == [variant |-> x.variant, layer |-> Layer_from(x.layer)]

Map_from(m) ==
    [version |-> m.version, tiledversion |-> m.tiledversion,
     orientation |-> m.orientation, renderorder |-> m.renderorder,
     width |-> m.width, height |-> m.height,
     tilewidth |-> m.tilewidth, tileheight |-> m.tileheight,
     infinite |-> m.infinite, backgroundcolor |-> m.backgroundcolor,
     nextlayerid |-> m.nextlayerid, nextobjectid |-> m.nextobjectid,
     editorsettings |-> IF IsSome(m.editorsettings)
                        THEN Some(EditorSettings_from(Unwrap(m.editorsettings)))
                        ELSE None,
     tilesets |-> [i \in 1..Len(m.tilesets) |-> TileSet_from(m.tilesets[i])],
     layers |-> [i \in 1..Len(m.layers) |-> LayerType_from(m.layers[i])]]

(***************************************************************************)
(* RemapEngine: what the loop body of main does to one cell.  ovf tells    *)
(* that a u32 operation overflowed (a panic when the build checks          *)
(* overflow, a wrapped value otherwise), div0 that it divided by zero (a   *)
(* panic in every build).                                                  *)
(***************************************************************************)
ReplaceCell(cell, find, replace) ==
    IF cell # Zero /\ WrappingSub(cell, One) = find
    THEN [val |-> WrappingAdd(replace, One), ovf |-> AddOverflows(replace, One),
          div0 |-> FALSE]
    ELSE [val |-> cell, ovf |-> FALSE, div0 |-> FALSE]

\* a remap that divides the cell itself instead of its logical index
ResizeCell_no_pred(cell, tileset_columns, columns) ==
    IF Ge(cell, tileset_columns)
    THEN LET div0 == tileset_columns = Zero
             quot == IF div0 THEN Zero ELSE DivMod(cell, tileset_columns).q
             diff == WrappingSub(columns, tileset_columns)
             prod == WrappingMul(quot, diff)
         IN  [val |-> WrappingAdd(cell, prod.val),
              ovf |-> \/ SubOverflows(columns, tileset_columns)
                      \/ prod.ovf
                      \/ AddOverflows(cell, prod.val),
              div0 |-> div0]
    ELSE [val |-> cell, ovf |-> FALSE, div0 |-> FALSE]

ResizeCell(cell, tileset_columns, columns) ==
    IF Ge(cell, tileset_columns)
    THEN LET pred == WrappingSub(cell, One)
             div0 == tileset_columns = Zero
             quot == IF div0 THEN Zero ELSE DivMod(pred, tileset_columns).q
             diff == WrappingSub(columns, tileset_columns)
             prod == WrappingMul(quot, diff)
         IN  [val |-> WrappingAdd(cell, prod.val),
              ovf |-> \/ SubOverflows(cell, One)
                      \/ SubOverflows(columns, tileset_columns)
                      \/ prod.ovf
                      \/ AddOverflows(cell, prod.val),
              div0 |-> div0]
    ELSE [val |-> cell, ovf |-> FALSE, div0 |-> FALSE]

\* the match on cli.command inside the cell loop
RemapCell(command, tileset, cell) ==
    CASE command.type = "Replace" -> ReplaceCell(cell, command.find, command.replace)
      [] command.type = "Resize" -> ResizeCell(cell, tileset.columns, command.columns)
      [] OTHER -> [val |-> cell, ovf |-> FALSE, div0 |-> FALSE]

\* the two loops over the rows and the cells of one grid
RemapGrid(command, tileset, grid) ==
    [i \in 1..Len(grid) |->
        [j \in 1..Len(grid[i]) |-> RemapCell(command, tileset, grid[i][j]).val]]

\* some cell of the grid makes the loop panic
RemapPanics(command, tileset, grid, checks) ==
    \E i \in 1..Len(grid) : \E j \in 1..Len(grid[i]) :
        LET r == RemapCell(command, tileset, grid[i][j])
        IN  r.div0 \/ (checks /\ r.ovf)

(***************************************************************************)
(* Inputs: the command lines and the TMX documents the runs are started on *)
(***************************************************************************)
MaxRows == 2
MaxCols == 2
MaxLayers == 3

TokMax == <<"4", "2", "9", "4", "9", "6", "7", "2", "9", "5">>
CellTokens == {<<"0">>, <<"9">>}

\* the csv text of a grid of tokens, laid out as Tiled writes it
CsvText(g) ==
    Join([i \in 1..Len(g) |-> Join(g[i], <<Comma>>)], <<Comma, Newline>>)

\* a row turned left by k cells
Turned(row, k) == [j \in 1..Len(row) |-> row[((j + k - 1) % Len(row)) + 1]]

\* every first row over the cell tokens, each following row the one above turned
\* by one cell
TokenGrids ==
    UNION {{[i \in 1..r |-> Turned(row, i - 1)] : row \in [1..c -> CellTokens]} :
              r \in 1..MaxRows, c \in 1..MaxCols}

\* the grids of the worked examples: [[0,5,6]], [[1,2],[3,4]] and [[9]]
TextRow == <<"0", ",", "5", ",", "6">>
TextSquare == <<"1", ",", "2", ",", "\n", "3", ",", "4">>
TextNine == <<"9">>
\* well-formed in other layouts: newlines around the text, rows ended by a
\* bare newline, a signed token
TextPadded == <<"\n", "8", ",", "9", ",", "\n", "5", ",", "0", "\n">>
TextBareRows == <<"5", ",", "9", "\n", "0", ",", "8">>
TextSigned == <<"+", "5">>
\* the largest cell there is, alone and in a grid [[0,8],[9,u32::MAX]]
TextMax == TokMax
TextMaxSquare == <<"0", ",", "8", ",", "\n", "9", ",">> \o TokMax
\* not grids of u32: a letter, a negative number, 2^32, rows of unequal
\* length in one chunk, a trailing comma
BadTexts ==
    { <<"x">>, <<"5", ",", "-", "1">>,
      <<"4", "2", "9", "4", "9", "6", "7", "2", "9", "6">>,
      <<"5", ",", "9", "\n", "0">>, <<"5", ",">> }

CsvTexts ==
    {CsvText(g) : g \in TokenGrids}
    \cup {TextRow, TextSquare, TextNine, TextPadded, TextBareRows, TextSigned,
          TextMax, TextMaxSquare}
    \cup BadTexts

DataLayer(variant, id, name, text) ==
    [variant |-> variant,
     layer |-> [id |-> Some(Lit(id)), name |-> name,
                width |-> Some(Lit(3)), height |-> Some(Lit(2)),
                offsetx |-> None, offsety |-> None,
                data |-> Some([encoding |-> "csv", data |-> text])]]

PlainLayer(variant, id, name) ==
    [variant |-> variant,
     layer |-> [id |-> Some(Lit(id)), name |-> name,
                width |-> None, height |-> None,
                offsetx |-> Some(Lit(7)), offsety |-> None,
                data |-> None]]

Ground == DataLayer("Layer", 1, "ground", TextSquare)
Sky == PlainLayer("ImageLayer", 2, "sky")
Props == DataLayer("Group", 3, "props", TextRow)
Objects == PlainLayer("ObjectGroup", 4, "objects")
Top == DataLayer("Layer", 5, "top", TextNine)
ContextLayers == {Ground, Sky, Props, Top}

\* the sequences of 2..MaxLayers different context layers
LayerLists ==
    UNION {{ls \in [1..n -> ContextLayers] :
               \A i, j \in 1..n : i # j => ls[i] # ls[j]} : n \in 2..MaxLayers}

TileSetOf(name, firstgid, tilecount, columns) ==
    [firstgid |-> Lit(firstgid), name |-> name,
     tilewidth |-> Lit(16), tileheight |-> Lit(24),
     tilecount |-> Lit(tilecount), columns |-> Lit(columns),
     image |-> [source |-> name, width |-> Lit(128), height |-> Lit(96)]]

Wide == TileSetOf("wide", 1, 64, 8)
Narrow == TileSetOf("narrow", 65, 20, 4)
Collection == TileSetOf("collection", 1, 3, 0)
TileSetLists == {<<>>, <<Wide>>, <<Narrow, Wide>>, <<Collection>>}

Doc(tilesets, layers) ==
    [wellformed |-> TRUE,
     version |-> "1.10", tiledversion |-> Some("1.10.2"),
     orientation |-> "orthogonal", renderorder |-> "right-down",
     width |-> Lit(3), height |-> Lit(2),
     tilewidth |-> Lit(16), tileheight |-> Lit(24),
     infinite |-> Some(Zero), backgroundcolor |-> None,
     nextlayerid |-> Some(Lit(6)), nextobjectid |-> Lit(11),
     editorsettings |-> Some([export |-> [target |-> "out.json", format |-> "json"]]),
     tilesets |-> tilesets, layers |-> layers]

Docs ==
    {Doc(<<Wide>>, <<DataLayer("Layer", 1, "ground", t)>>) : t \in CsvTexts}
    \cup {Doc(ts, <<Ground>>) : ts \in TileSetLists}
    \cup {Doc(<<Narrow, Wide>>, ls) : ls \in LayerLists}
    \cup {Doc(<<Narrow, Wide>>, <<Objects, Ground, Sky, Top, Props>>)}
    \cup {[Doc(<<Wide>>, <<Ground>>) EXCEPT !.wellformed = FALSE]}

FindValues == {Zero, Lit(4), Lit(8), U32_MAX}
ReplaceValues == {Lit(9), U32_MAX}
TilecountValues == {Lit(32)}
ColumnsValues == {Lit(4), Lit(8), Lit(16)}

\* enum Commands
Commands ==
    {[type |-> "Replace", find |-> f, replace |-> r] :
        f \in FindValues, r \in ReplaceValues}
    \cup {[type |-> "Resize", tilecount |-> t, columns |-> c] :
        t \in TilecountValues, c \in ColumnsValues}
    \cup {[type |-> "Convert"]}

(***************************************************************************)
(* from_str::<Map<XmlFormat>>: the scalar fields are taken over as the     *)
(* document gives them, the text of every data element goes through        *)
(* deserialize_csv.                                                        *)
(***************************************************************************)
DataTexts(doc) ==
    {Unwrap(doc.layers[i].layer.data).data :
        i \in {k \in 1..Len(doc.layers) : IsSome(doc.layers[k].layer.data)}}

from_str_fails(doc) ==
    \/ ~doc.wellformed
    \/ \E t \in DataTexts(doc) : ~deserialize_csv(t).ok

ParsedLayer(x) ==
    [x EXCEPT !.layer.data =
        IF IsSome(@)
        THEN Some([encoding |-> Unwrap(@).encoding,
                   data |-> deserialize_csv(Unwrap(@).data).grid])
        ELSE None]

from_str(doc) ==
    [version |-> doc.version, tiledversion |-> doc.tiledversion,
     orientation |-> doc.orientation, renderorder |-> doc.renderorder,
     width |-> doc.width, height |-> doc.height,
     tilewidth |-> doc.tilewidth, tileheight |-> doc.tileheight,
     infinite |-> doc.infinite, backgroundcolor |-> doc.backgroundcolor,
     nextlayerid |-> doc.nextlayerid, nextobjectid |-> doc.nextobjectid,
     editorsettings |-> doc.editorsettings,
     tilesets |-> doc.tilesets,
     layers |-> [i \in 1..Len(doc.layers) |-> ParsedLayer(doc.layers[i])]]

(***************************************************************************)
(* main                                                                    *)
(***************************************************************************)
VARIABLES
    cli,              \* the parsed command line: command and in_place
    overflow_checks,  \* whether the build panics on u32 overflow or wraps
    fs,               \* the document stored in the input file
    pc,               \* the statement main is at
    contents,         \* Option: the text read from the file
    map,              \* Option: the Map<XmlFormat> being edited
    layer_idx,        \* position of the loop over map.layers
    jmap,             \* Option: the Map<JsonFormat> of Convert
    res,              \* Option: the serialized JSON
    xml_str,          \* Option: the serialized XML
    stdout,           \* what has been printed
    panic             \* Option: the message main panicked with

vars == <<cli, overflow_checks, fs, pc, contents, map, layer_idx, jmap, res,
          xml_str, stdout, panic>>

Init ==
    /\ cli \in [command : Commands, in_place : BOOLEAN]
    /\ overflow_checks \in BOOLEAN
    /\ fs \in Docs
    /\ pc = "read_to_string"
    /\ contents = None
    /\ map = None
    /\ layer_idx = 1
    /\ jmap = None
    /\ res = None
    /\ xml_str = None
    /\ stdout = <<>>
    /\ panic = None

Panic(msg) ==
    /\ pc' = "panicked"
    /\ panic' = Some(msg)

\* fs::read_to_string succeeds
ReadFile ==
    /\ pc = "read_to_string"
    /\ contents' = Some(fs)
    /\ pc' = "from_str"
    /\ UNCHANGED <<cli, overflow_checks, fs, map, layer_idx, jmap, res, xml_str,
                   stdout, panic>>

\* fs::read_to_string fails (no such file, no permission, not UTF-8)
ReadFileFails ==
    /\ pc = "read_to_string"
    /\ Panic("Should have been able to read the file")
    /\ UNCHANGED <<cli, overflow_checks, fs, contents, map, layer_idx, jmap, res,
                   xml_str, stdout>>

\* a parse that lets every document through
ParseXml_unchecked ==
    /\ pc = "from_str"
    /\ map' = Some(from_str(Unwrap(contents)))
    /\ pc' = "command"
    /\ UNCHANGED <<cli, overflow_checks, fs, contents, layer_idx, jmap, res,
                   xml_str, stdout, panic>>

ParseXml ==
    /\ pc = "from_str"
    /\ ~from_str_fails(Unwrap(contents))
    /\ map' = Some(from_str(Unwrap(contents)))
    /\ pc' = "command"
    /\ UNCHANGED <<cli, overflow_checks, fs, contents, layer_idx, jmap, res,
                   xml_str, stdout, panic>>

\* from_str(..).unwrap() on a document that is not a map, or whose csv text
\* makes deserialize_csv panic.  Whether the deserializer accepts a map
\* without any tileset element is its own decision: both outcomes are kept.
ParseXmlFails ==
    /\ pc = "from_str"
    /\ \/ from_str_fails(Unwrap(contents))
       \/ Unwrap(contents).tilesets = <<>>
    /\ Panic("called Result::unwrap() on an Err value")
    /\ UNCHANGED <<cli, overflow_checks, fs, contents, map, layer_idx, jmap, res,
                   xml_str, stdout>>

\* Commands::Convert: map.into()
ConvertMap ==
    /\ pc = "command"
    /\ cli.command.type = "Convert"
    /\ jmap' = Some(Map_from(Unwrap(map)))
    /\ pc' = "to_string_pretty"
    /\ UNCHANGED <<cli, overflow_checks, fs, contents, map, layer_idx, res,
                   xml_str, stdout, panic>>

SerializeJson ==
    /\ pc = "to_string_pretty"
    /\ res' = Some([fields |-> Map_serialize("JsonFormat", Unwrap(jmap))])
    /\ pc' = "println"
    /\ UNCHANGED <<cli, overflow_checks, fs, contents, map, layer_idx, jmap,
                   xml_str, stdout, panic>>

\* map.tilesets.iter_mut().next().expect(..) finds a tileset
FirstTileset ==
    /\ pc = "command"
    /\ cli.command.type # "Convert"
    /\ Unwrap(map).tilesets # <<>>
    /\ layer_idx' = 1
    /\ pc' = "layers"
    /\ UNCHANGED <<cli, overflow_checks, fs, contents, map, jmap, res, xml_str,
                   stdout, panic>>

NoTileset ==
    /\ pc = "command"
    /\ cli.command.type # "Convert"
    /\ Unwrap(map).tilesets = <<>>
    /\ Panic("Needs at least one tileset")
    /\ UNCHANGED <<cli, overflow_checks, fs, contents, map, layer_idx, jmap, res,
                   xml_str, stdout>>

\* the position of the last tileset of the map
tileset_idx_last == Len(Unwrap(map).tilesets)

\* iter_mut().next(): the tileset all cells are remapped against is the first
tileset_idx == 1
tileset == Unwrap(map).tilesets[tileset_idx]

\* one iteration of "for layer in &mut map.layers" that runs to its end
RemapLayer ==
    /\ pc = "layers"
    /\ layer_idx <= Len(Unwrap(map).layers)
    /\ LET data == Unwrap(map).layers[layer_idx].layer.data
       IN  IF IsSome(data)
           THEN /\ ~RemapPanics(cli.command, tileset, Unwrap(data).data,
                                overflow_checks)
                /\ map' = Some([Unwrap(map) EXCEPT
                        !.layers[layer_idx].layer.data =
                            Some([Unwrap(data) EXCEPT !.data =
                                RemapGrid(cli.command, tileset, @)])])
           ELSE map' = map
    /\ layer_idx' = layer_idx + 1
    /\ UNCHANGED <<cli, overflow_checks, fs, pc, contents, jmap, res, xml_str,
                   stdout, panic>>

\* one iteration that panics on the arithmetic of a cell
RemapLayerPanics ==
    /\ pc = "layers"
    /\ layer_idx <= Len(Unwrap(map).layers)
    /\ LET data == Unwrap(map).layers[layer_idx].layer.data
       IN  /\ IsSome(data)
           /\ RemapPanics(cli.command, tileset, Unwrap(data).data, overflow_checks)
    /\ Panic("arithmetic overflow or division by zero")
    /\ UNCHANGED <<cli, overflow_checks, fs, contents, map, layer_idx, jmap, res,
                   xml_str, stdout>>

\* after the loop: "if let Commands::Resize { tilecount, columns } = cli.command"
UpdateTileset ==
    /\ pc = "layers"
    /\ layer_idx > Len(Unwrap(map).layers)
    /\ map' = IF cli.command.type = "Resize"
              THEN Some([Unwrap(map) EXCEPT
                      !.tilesets[tileset_idx].columns = cli.command.columns,
                      !.tilesets[tileset_idx].tilecount = cli.command.tilecount])
              ELSE map
    /\ pc' = "write_serializable"
    /\ UNCHANGED <<cli, overflow_checks, fs, contents, layer_idx, jmap, res,
                   xml_str, stdout, panic>>

\* the XML declaration and the map written through the quick-xml Writer
SerializeXml ==
    /\ pc = "write_serializable"
    /\ xml_str' = Some([decl |-> [version |-> "1.0", encoding |-> "UTF-8"],
                        root |-> "map",
                        fields |-> Map_serialize("XmlFormat", Unwrap(map))])
    /\ pc' = "println"
    /\ UNCHANGED <<cli, overflow_checks, fs, contents, map, layer_idx, jmap, res,
                   stdout, panic>>

\* println!: both branches of main print to standard output
WriteStdout ==
    /\ pc = "println"
    /\ stdout' = Append(stdout, IF cli.command.type = "Convert" THEN Unwrap(res)
                                 ELSE Unwrap(xml_str))
    /\ pc' = "exit"
    /\ UNCHANGED <<cli, overflow_checks, fs, contents, map, layer_idx, jmap, res,
                   xml_str, panic>>

Next ==
    \/ ReadFile
    \/ ReadFileFails
    \/ ParseXml
    \/ ParseXmlFails
    \/ ConvertMap
    \/ SerializeJson
    \/ FirstTileset
    \/ NoTileset
    \/ RemapLayer
    \/ RemapLayerPanics
    \/ UpdateTileset
    \/ SerializeXml
    \/ WriteStdout

Spec == Init /\ [][Next]_vars

(***************************************************************************)
(* Reading the state: the document as parsed, the serialized outputs       *)
(***************************************************************************)
\* the value filed under key in a serialized struct
Entry(entries, key) ==
    entries[CHOOSE i \in 1..Len(entries) : entries[i][1] = key][2]

\* the layers of the map being edited, and the indices of those with data
Layers == Unwrap(map).layers
DataLayers == {i \in 1..Len(Layers) : IsSome(Layers[i].layer.data)}
Grid(i) == Unwrap(Layers[i].layer.data).data

\* the layer entries of the XML output: the entries after those of the map
XmlLayerEntries ==
    LET fields == Unwrap(xml_str).fields
    IN  SubSeq(fields, Len(fields) - Len(Layers) + 1, Len(fields))
\* the csv text the XML output carries for layer i
XmlText(i) == Entry(Entry(XmlLayerEntries[i][2], "data"), "$text")

Rectangular(grid) ==
    /\ Len(grid) >= 1
    /\ \A i \in 1..Len(grid) : Len(grid[i]) = Len(grid[1]) /\ Len(grid[i]) >= 1

\* the grids [[1,2],[3,4]] and [[0,5,6]] of the worked examples
GridSquare == << <<Lit(1), Lit(2)>>, <<Lit(3), Lit(4)>> >>
GridRow == << <<Zero, Lit(5), Lit(6)>> >>

(***************************************************************************)
(* C1: decoding the csv text the XML output carries for a non-empty        *)
(* rectangular grid gives back exactly that grid: the same rows, the same  *)
(* row lengths, the same cells in the same order.                          *)
(***************************************************************************)
C1_RoundTrip ==
    IsSome(xml_str) =>
        \A i \in DataLayers :
            Rectangular(Grid(i)) =>
                deserialize_csv(XmlText(i)) = [ok |-> TRUE, grid |-> Grid(i)]

\* an output whose grid has two rows and two columns, an empty cell and the
\* largest cell among them
C1_Witness ==
    /\ IsSome(xml_str)
    /\ \E i \in DataLayers :
        /\ Len(Grid(i)) = 2 /\ Len(Grid(i)[1]) = 2
        /\ Grid(i)[1][1] = Zero
        /\ Grid(i)[2][2] = U32_MAX

(***************************************************************************)
(* C2 as stated: the encoded text is the rows' comma-joined cells with a   *)
(* single newline between rows, the comma before the newline removed.      *)
(***************************************************************************)
RowText(row) == Join([j \in 1..Len(row) |-> FormatU32(row[j])], <<Comma>>)

C2_NewlineOnly ==
    IsSome(xml_str) =>
        \A i \in DataLayers :
            Len(Grid(i)) >= 1 =>
                XmlText(i) = Join([r \in 1..Len(Grid(i)) |-> RowText(Grid(i)[r])],
                                  <<Newline>>)

(***************************************************************************)
(* C2 amended: every row but the last is followed by a comma and a         *)
(* newline, the last row by nothing; [[1,2],[3,4]] gives the 8 characters  *)
(* 1,2, newline 3,4.                                                       *)
(***************************************************************************)
C2_CommaNewline ==
    IsSome(xml_str) =>
        \A i \in DataLayers :
            Len(Grid(i)) >= 1 =>
                /\ XmlText(i) = Join([r \in 1..Len(Grid(i)) |-> RowText(Grid(i)[r])],
                                     <<Comma, Newline>>)
                /\ Grid(i) = GridSquare =>
                       XmlText(i) = <<"1", ",", "2", ",", "\n", "3", ",", "4">>

C2_Witness ==
    /\ IsSome(xml_str)
    /\ \E i \in DataLayers : Grid(i) = GridSquare

(***************************************************************************)
(* The document as it was parsed, against which the edited map is read     *)
(***************************************************************************)
Orig == from_str(fs)
OrigGrid(i) == Unwrap(Orig.layers[i].layer.data).data

\* the cell loop and the tileset update are over
RemapDone ==
    /\ cli.command.type # "Convert"
    /\ pc \in {"write_serializable", "println", "exit"}

\* the positions of the grid of layer i
Cells(i) == {<<r, j>> \in (1..Len(Grid(i))) \X (1..MaxCols + 2) : j <= Len(Grid(i)[r])}

SameShape(i) ==
    /\ Len(Grid(i)) = Len(OrigGrid(i))
    /\ \A r \in 1..Len(Grid(i)) : Len(Grid(i)[r]) = Len(OrigGrid(i)[r])

ArithmeticPanic == Some("arithmetic overflow or division by zero")

(***************************************************************************)
(* C3: after Replace(find, replace) every grid has its shape, a cell c     *)
(* with c # 0 and c - 1 = find holds the number replace + 1, and every     *)
(* other cell holds what it held.                                          *)
(***************************************************************************)
C3_Replace ==
    (RemapDone /\ cli.command.type = "Replace") =>
        \A i \in DataLayers :
            /\ SameShape(i)
            /\ \A p \in Cells(i) :
                LET c == OrigGrid(i)[p[1]][p[2]]
                    n == Grid(i)[p[1]][p[2]]
                IN  IF c # Zero /\ WrappingSub(c, One) = cli.command.find
                    THEN /\ ~AddOverflows(cli.command.replace, One)
                         /\ n = WrappingAdd(cli.command.replace, One)
                    ELSE n = c

(***************************************************************************)
(* Resize: the stride before and after, the position of a tile             *)
(***************************************************************************)
OldColumns == Orig.tilesets[1].columns
NewColumns == cli.command.columns

ResizeDone ==
    /\ RemapDone
    /\ cli.command.type = "Resize"
    /\ OldColumns # Zero
    /\ NewColumns # Zero

\* row and column of the tile of a non-empty cell under a stride
Position(cell, stride) == DivMod(WrappingSub(cell, One), stride)

(***************************************************************************)
(* C4 as stated: after Resize every non-empty cell holds a non-empty cell  *)
(* whose row and column under the new stride are its row and column under  *)
(* the old stride, also when the tileset loses columns.                    *)
(***************************************************************************)
C4_PositionKept ==
    ResizeDone =>
        \A i \in DataLayers : \A p \in Cells(i) :
            LET c == OrigGrid(i)[p[1]][p[2]]
                n == Grid(i)[p[1]][p[2]]
            IN  c # Zero =>
                    /\ n # Zero
                    /\ Position(n, NewColumns) = Position(c, OldColumns)

(***************************************************************************)
(* C4 amended: the position is kept for every non-empty cell whose column  *)
(* exists under the new stride and whose remapped value row * columns +    *)
(* column + 1 fits in 32 bits.                                             *)
(***************************************************************************)
\* row * columns + column + 1 is a u32
TargetFits(cell) ==
    LET pos == Position(cell, OldColumns)
        prod == WrappingMul(pos.q, NewColumns)
    IN  /\ ~prod.ovf
        /\ ~AddOverflows(prod.val, pos.r)
        /\ ~AddOverflows(WrappingAdd(prod.val, pos.r), One)

C4_PositionKeptWhereItExists ==
    ResizeDone =>
        \A i \in DataLayers : \A p \in Cells(i) :
            LET c == OrigGrid(i)[p[1]][p[2]]
                n == Grid(i)[p[1]][p[2]]
            IN  (c # Zero /\ Lt(Position(c, OldColumns).r, NewColumns)
                    /\ TargetFits(c)) =>
                    /\ n # Zero
                    /\ Position(n, NewColumns) = Position(c, OldColumns)

\* a finished Resize to fewer columns that moved a cell of a later row
C4_Witness ==
    /\ ResizeDone
    /\ Lt(NewColumns, OldColumns)
    /\ \E i \in DataLayers : \E p \in Cells(i) :
        LET c == OrigGrid(i)[p[1]][p[2]]
        IN  /\ Lt(OldColumns, c)
            /\ Lt(Position(c, OldColumns).r, NewColumns)
            /\ TargetFits(c)
            /\ Grid(i)[p[1]][p[2]] # c

(***************************************************************************)
(* C5: Resize never fails on its arithmetic, and a cell c >= oldColumns    *)
(* ends as the integer c + ((c-1) div oldColumns) * (columns - oldColumns),*)
(* also when columns < oldColumns.                                         *)
(***************************************************************************)
\* the integer result where it is a u32: fits tells whether it is
ResizeExact(cell) ==
    LET q == Position(cell, OldColumns).q
    IN  IF Ge(NewColumns, OldColumns)
        THEN LET prod == WrappingMul(q, WrappingSub(NewColumns, OldColumns))
             IN  [fits |-> ~prod.ovf /\ ~AddOverflows(cell, prod.val),
                  val |-> WrappingAdd(cell, prod.val)]
        ELSE LET prod == WrappingMul(q, WrappingSub(OldColumns, NewColumns))
             IN  [fits |-> ~prod.ovf /\ ~SubOverflows(cell, prod.val),
                  val |-> WrappingSub(cell, prod.val)]

C5_ResizeExact ==
    (cli.command.type = "Resize" /\ IsSome(map) /\ Orig.tilesets # <<>>
        /\ OldColumns # Zero) =>
        /\ panic # ArithmeticPanic
        /\ RemapDone =>
            \A i \in DataLayers : \A p \in Cells(i) :
                LET c == OrigGrid(i)[p[1]][p[2]]
                    n == Grid(i)[p[1]][p[2]]
                IN  Ge(c, OldColumns) =>
                        ResizeExact(c).fits /\ n = ResizeExact(c).val

(***************************************************************************)
(* C6: Resize remaps every cell of every layer against the columns the     *)
(* first tileset had when it was parsed; that tileset's columns and        *)
(* tilecount are overwritten only once the cell loop is over, with the     *)
(* values of the command; its other fields and every other tileset stay    *)
(* as parsed.  Replace changes no tileset at all.                          *)
(***************************************************************************)
\* the layers the loop has been through
Remapped == {i \in DataLayers : RemapDone \/ (pc = "layers" /\ i < layer_idx)}

C6_FirstTilesetOnly ==
    (IsSome(map) /\ pc # "panicked") =>
        LET now == Unwrap(map).tilesets
            before == Orig.tilesets
        IN  /\ Len(now) = Len(before)
            /\ \A k \in 2..Len(now) : now[k] = before[k]
            /\ cli.command.type # "Resize" => now = before
            /\ (cli.command.type = "Resize" /\ ~RemapDone) => now = before
            /\ (cli.command.type = "Resize" /\ RemapDone) =>
                now[1] = [before[1] EXCEPT !.columns = cli.command.columns,
                                           !.tilecount = cli.command.tilecount]
            /\ cli.command.type = "Resize" =>
                \A i \in Remapped :
                    Grid(i) = RemapGrid(cli.command, before[1], OrigGrid(i))

\* a finished Resize of a map with two tilesets that moved a cell
C6_Witness ==
    /\ pc = "exit"
    /\ cli.command.type = "Resize"
    /\ Len(Orig.tilesets) = 2
    /\ Orig.tilesets[1].columns # Orig.tilesets[2].columns
    /\ Unwrap(map).tilesets[1].columns # Orig.tilesets[1].columns
    /\ \E i \in DataLayers : Grid(i) # OrigGrid(i)

(***************************************************************************)
(* C7: the JSON output of Convert carries, for the map, every tileset with *)
(* its image and every layer, the scalar values of the parsed document,    *)
(* and for every layer with data the cells of the grid row after row.      *)
(***************************************************************************)
HasEntry(entries, key) == \E i \in 1..Len(entries) : entries[i][1] = key

\* an optional scalar is written exactly when it is there, with its value
SameOption(entries, key, o) ==
    IF IsSome(o) THEN HasEntry(entries, key) /\ Entry(entries, key) = Unwrap(o)
    ELSE ~HasEntry(entries, key)

\* the cells before row r of a grid
RECURSIVE CellsBefore(_, _)
CellsBefore(grid, r) == IF r = 1 THEN 0 ELSE CellsBefore(grid, r - 1) + Len(grid[r - 1])

RowMajor(arr, grid) ==
    /\ Len(arr) = CellsBefore(grid, Len(grid) + 1)
    /\ \A r \in 1..Len(grid) : \A j \in 1..Len(grid[r]) :
          arr[CellsBefore(grid, r) + j] = grid[r][j]

JsonTileSetSame(e, ts) ==
    /\ Entry(e, "firstgid") = ts.firstgid
    /\ Entry(e, "name") = ts.name
    /\ Entry(e, "tilewidth") = ts.tilewidth
    /\ Entry(e, "tileheight") = ts.tileheight
    /\ Entry(e, "tilecount") = ts.tilecount
    /\ Entry(e, "columns") = ts.columns
    /\ Entry(e, "image") = ts.image.source
    /\ Entry(e, "imagewidth") = ts.image.width
    /\ Entry(e, "imageheight") = ts.image.height

JsonLayerSame(e, x) ==
    /\ SameOption(e, "id", x.layer.id)
    /\ Entry(e, "name") = x.layer.name
    /\ SameOption(e, "width", x.layer.width)
    /\ SameOption(e, "height", x.layer.height)
    /\ SameOption(e, "offsetx", x.layer.offsetx)
    /\ SameOption(e, "offsety", x.layer.offsety)
    /\ IF IsSome(x.layer.data)
       THEN HasEntry(e, "data") /\ RowMajor(Entry(e, "data"), Unwrap(x.layer.data).data)
       ELSE ~HasEntry(e, "data")

C7_ConvertKeepsValues ==
    /\ IsSome(jmap) => Unwrap(jmap) = Orig
    /\ IsSome(res) =>
        LET e == Unwrap(res).fields
            ts == Entry(e, "tilesets")
            ls == Entry(e, "layers")
        IN  /\ Entry(e, "version") = Orig.version
            /\ Entry(e, "tiledversion") = Orig.tiledversion
            /\ Entry(e, "orientation") = Orig.orientation
            /\ Entry(e, "renderorder") = Orig.renderorder
            /\ Entry(e, "width") = Orig.width
            /\ Entry(e, "height") = Orig.height
            /\ Entry(e, "tilewidth") = Orig.tilewidth
            /\ Entry(e, "tileheight") = Orig.tileheight
            /\ Entry(e, "infinite") = Orig.infinite
            /\ Entry(e, "backgroundcolor") = Orig.backgroundcolor
            /\ Entry(e, "nextlayerid") = Orig.nextlayerid
            /\ Entry(e, "nextobjectid") = Orig.nextobjectid
            /\ IsSome(Entry(e, "editorsettings")) = IsSome(Orig.editorsettings)
            /\ IsSome(Orig.editorsettings) =>
                LET ex == Entry(Unwrap(Entry(e, "editorsettings")), "export")
                IN  /\ Entry(ex, "target") = Unwrap(Orig.editorsettings).export.target
                    /\ Entry(ex, "format") = Unwrap(Orig.editorsettings).export.format
            /\ Len(ts) = Len(Orig.tilesets)
            /\ \A k \in 1..Len(ts) : JsonTileSetSame(ts[k], Orig.tilesets[k])
            /\ Len(ls) = Len(Orig.layers)
            /\ \A i \in 1..Len(ls) : JsonLayerSame(ls[i], Orig.layers[i])

\* a JSON output of a map with two tilesets and a grid of two rows of two
C7_Witness ==
    /\ IsSome(res)
    /\ Len(Orig.tilesets) = 2
    /\ \E i \in DataLayers : Len(Grid(i)) = 2 /\ Len(Grid(i)[1]) = 2

(***************************************************************************)
(* C8: a run that succeeds with the in-place flag writes its result to the *)
(* input file and not to standard output; without the flag it prints the   *)
(* result and leaves the file as it was read.                              *)
(***************************************************************************)
Result == IF cli.command.type = "Convert" THEN Unwrap(res) ELSE Unwrap(xml_str)

C8_Destination ==
    pc = "exit" =>
        IF cli.in_place
        THEN fs = Result /\ stdout = <<>>
        ELSE stdout = <<Result>> /\ Some(fs) = contents

(***************************************************************************)
(* C9: a run that fails has printed nothing; what is printed is the one    *)
(* complete result, after parsing, the selected operation and the          *)
(* serialization; a document that cannot be parsed never gets past the     *)
(* parse, and Replace or Resize on a map without tileset never touches a   *)
(* cell.                                                                   *)
(***************************************************************************)
\* the document is not XML of a map, or a grid token is not a u32
Unparsable ==
    \/ ~fs.wellformed
    \/ \E i \in 1..Len(fs.layers) :
          /\ IsSome(fs.layers[i].layer.data)
          /\ Unwrap(fs.layers[i].layer.data).data \in BadTexts

C9_NoPartialOutput ==
    /\ IsSome(panic) => pc = "panicked" /\ stdout = <<>>
    /\ pc = "panicked" => IsSome(panic)
    /\ stdout # <<>> =>
        /\ pc = "exit"
        /\ IsSome(map)
        /\ stdout = <<Result>>
        /\ cli.command.type = "Convert" => IsSome(jmap) /\ IsSome(res)
        /\ cli.command.type # "Convert" =>
              IsSome(xml_str) /\ layer_idx > Len(Layers)
    /\ Unparsable => pc \in {"read_to_string", "from_str", "panicked"}
    /\ (fs.tilesets = <<>> /\ cli.command.type # "Convert") =>
        /\ pc \in {"read_to_string", "from_str", "command", "panicked"}
        /\ IsSome(map) => Unwrap(map) = Orig
    /\ panic = Some("Needs at least one tileset") =>
        /\ cli.command.type \in {"Replace", "Resize"}
        /\ Unwrap(map) = Orig

\* a run stopped by a grid token that is not a u32
C9_Witness ==
    /\ pc = "panicked"
    /\ IsSome(contents)
    /\ fs.wellformed
    /\ Unparsable
    /\ stdout = <<>>

(***************************************************************************)
(* C10 as stated: in the XML output the layers come in one bucket per      *)
(* variant, each under the singular tag of its variant, in input order     *)
(* within a bucket.                                                        *)
(***************************************************************************)
Tag(x) ==
    CASE x.variant = "Layer" -> "layer"
      [] x.variant = "ImageLayer" -> "imagelayer"
      [] x.variant = "Group" -> "group"
      [] x.variant = "ObjectGroup" -> "objectgroup"

XmlTags == [i \in 1..Len(XmlLayerEntries) |-> XmlLayerEntries[i][1]]
XmlNames == [i \in 1..Len(XmlLayerEntries) |-> Entry(XmlLayerEntries[i][2], "@name")]

\* the layers of one tag stand next to each other
Bucketed(tags) ==
    \A i, j, k \in 1..Len(tags) : (i < j /\ j < k /\ tags[i] = tags[k]) => tags[j] = tags[i]

\* the names under one tag, in output order, and those of one variant, in
\* input order
NamesOfTag(t) ==
    SelectSeq(XmlNames, LAMBDA n : \E i \in 1..Len(XmlTags) : XmlTags[i] = t /\ XmlNames[i] = n)
NamesOfVariant(t) ==
    LET names == [i \in 1..Len(Layers) |-> Layers[i].layer.name]
    IN  SelectSeq(names, LAMBDA n : \E i \in 1..Len(Layers) :
                                        Tag(Layers[i]) = t /\ Layers[i].layer.name = n)

AllTags == {"layer", "imagelayer", "group", "objectgroup"}

C10_Buckets ==
    IsSome(xml_str) =>
        /\ Len(XmlTags) = Len(Layers)
        /\ \A t \in AllTags : NamesOfTag(t) = NamesOfVariant(t)
        /\ Bucketed(XmlTags)

(***************************************************************************)
(* C10 amended: in the XML output the layers come one by one in input      *)
(* order, each under the singular tag of its own variant, so that the      *)
(* order is kept both within and between variants; the tilesets come under *)
(* the tag tileset.                                                        *)
(***************************************************************************)
C10_DocumentOrder ==
    IsSome(xml_str) =>
        /\ Len(Unwrap(xml_str).fields) = 14 + Len(Layers)
        /\ HasEntry(Unwrap(xml_str).fields, "tileset")
        /\ \A i \in 1..Len(Layers) :
              /\ XmlTags[i] = Tag(Layers[i])
              /\ XmlNames[i] = Layers[i].layer.name
        /\ \A t \in AllTags : NamesOfTag(t) = NamesOfVariant(t)

\* an output with a layer of another variant between two of one variant
C10_Witness ==
    /\ IsSome(xml_str)
    /\ \E i, j, k \in 1..Len(Layers) :
          /\ i < j /\ j < k
          /\ Layers[i].variant = Layers[k].variant
          /\ Layers[j].variant # Layers[i].variant

(***************************************************************************)
(* C11: in the JSON output the layers of all variants are one array under  *)
(* the key layers, of the length of the input list, whose i-th element is  *)
(* the i-th layer of the input and carries the type tilelayer, imagelayer, *)
(* group or objectgroup of its variant; in the XML output no layer has a   *)
(* type field.                                                             *)
(***************************************************************************)
TypeOf(x) ==
    CASE x.variant = "Layer" -> "tilelayer"
      [] x.variant = "ImageLayer" -> "imagelayer"
      [] x.variant = "Group" -> "group"
      [] x.variant = "ObjectGroup" -> "objectgroup"

\* how many entries of a list of fields have the key
Count(entries, key) == Cardinality({i \in 1..Len(entries) : entries[i][1] = key})

C11_JsonLayerArray ==
    /\ IsSome(res) =>
        LET e == Unwrap(res).fields
        IN  /\ Count(e, "layers") = 1
            /\ \A t \in AllTags \cup {"imagelayers", "groups", "objectgroups"} :
                  Count(e, t) = 0
            /\ LET ls == Entry(e, "layers")
               IN  /\ Len(ls) = Len(Orig.layers)
                   /\ \A i \in 1..Len(ls) :
                         /\ Count(ls[i], "type") = 1
                         /\ Entry(ls[i], "type") = TypeOf(Orig.layers[i])
                         /\ Count(ls[i], "@type") = 0
                         /\ JsonLayerSame(ls[i], Orig.layers[i])
    /\ IsSome(xml_str) =>
        \A i \in 1..Len(XmlLayerEntries) :
            /\ Count(XmlLayerEntries[i][2], "@type") = 0
            /\ Count(XmlLayerEntries[i][2], "type") = 0

\* a JSON output of the four variants, with a layer of another variant
\* between two of one variant
C11_Witness ==
    /\ IsSome(res)
    /\ {Orig.layers[i].variant : i \in 1..Len(Orig.layers)}
          = {"Layer", "ImageLayer", "Group", "ObjectGroup"}
    /\ \E i, j, k \in 1..Len(Orig.layers) :
          /\ i < j /\ j < k
          /\ Orig.layers[i].variant = Orig.layers[k].variant
          /\ Orig.layers[j].variant # Orig.layers[i].variant

(***************************************************************************)
(* C12: with a first tileset of at least one column, a Replace or Resize   *)
(* that ran to its end leaves a cell empty exactly when it was empty       *)
(* before, and the remap of an empty cell neither overflows nor divides by *)
(* zero.                                                                   *)
(***************************************************************************)
\* the remap of an empty cell goes through in every build
EmptyCellPasses ==
    LET r == RemapCell(cli.command, Orig.tilesets[1], Zero)
    IN  r.val = Zero /\ ~r.ovf /\ ~r.div0

C12_EmptinessKept ==
    (/\ cli.command.type \in {"Replace", "Resize"}
     /\ IsSome(map)
     /\ Orig.tilesets # <<>>) =>
        (OldColumns # Zero =>
            /\ EmptyCellPasses
            /\ RemapDone =>
                \A i \in DataLayers :
                    /\ SameShape(i)
                    /\ \A p \in Cells(i) :
                          (Grid(i)[p[1]][p[2]] = Zero) <=> (OrigGrid(i)[p[1]][p[2]] = Zero))

====
